---- MODULE Spec2Model ----
(***************************************************************************)
(* Model of the SignFX metrics engine of mcp_signfx_tool.py: the           *)
(* SignFXMetricsCalculator (scoring, bounded history, windowed average,    *)
(* summary) and the four tool handlers that drive it.                      *)
(*                                                                         *)
(* Numbers.  A Python float v is represented by the integer 1000 * v       *)
(* ("milli" units); timestamps are whole seconds.  float('inf') is the     *)
(* value Inf, which the arithmetic operators FAdd/FSum treat as absorbing. *)
(* A mean is kept exact, as the fraction [num, den]; statistics.mean       *)
(* computes the exact fraction and rounds it once to the nearest float,    *)
(* that last rounding to 53 bits is not modelled.                          *)
(*                                                                         *)
(* Two specifications share the actions and differ in the requests they    *)
(* issue.  Spec issues every kind of request on short histories.  SpecCap  *)
(* issues 999-sample simulate calls, so that the history reaches and       *)
(* passes MAX_HISTORY, with fewer kinds of request.                        *)
(* Both handle one request at a time.  SpecAsync keeps several requests    *)
(* in flight and runs the ingesting handlers statement by statement, the   *)
(* way the asyncio event loop schedules them.                              *)
(***************************************************************************)
EXTENDS Integers, Sequences, FiniteSets, TLC

\* ------------------------------------------------------------------ bounds
MaxCalls == 3          \* ingesting tool calls (add / simulate) per behaviour
MaxTime  == 60         \* the clock stops being advanced by Tick after this
MaxInflight == 2       \* requests received and not yet started

\* ------------------------------------------------------- program constants
MAX_HISTORY   == 1000  \* add_metrics: keep only the last 1000 entries
RECENT_WINDOW == 100   \* get_metrics_summary: metrics_history[-100:]
Inf           == 2000000000   \* float('inf')

VARIABLES
    metrics_history,   \* SignFXMetricsCalculator.metrics_history
    now,               \* the wall clock read by datetime.now(), in seconds
    ret,               \* what the calculator method of the last call returned
    response,          \* the CallToolResult of the last tool call
    ingested,          \* history variable: every record add_metrics appended, in order
    calls,             \* history variable: number of ingesting tool calls so far
    inflight,          \* the tool requests received and not yet started
    running            \* the handler that is between two of its statements

vars == <<metrics_history, now, ret, response, ingested, calls, inflight, running>>

\* ------------------------------------------------------------ arithmetic
Min(a, b) == IF b < a THEN b ELSE a
Max(a, b) == IF b > a THEN b ELSE a
Abs(a)    == IF a < 0 THEN -a ELSE a

\* x + y on floats, with inf absorbing
FAdd(x, y) == IF x = Inf \/ y = Inf THEN Inf ELSE x + y

\* x * 2.5 on floats
Times2_5(x) == IF x = Inf THEN Inf ELSE (5 * x) \div 2

\* num / den rounded to the nearest integer, ties to even (den > 0)
RoundDiv(num, den) ==
    LET q == num \div den
        r == num % den
    IN  IF 2 * r < den THEN q
        ELSE IF 2 * r > den THEN q + 1
        ELSE IF q % 2 = 0 THEN q ELSE q + 1

\* sum of f[lo..hi] with inf absorbing, by halving (keeps the evaluation shallow)
RECURSIVE FSumRange(_, _, _)
FSumRange(f, lo, hi) ==
    IF lo > hi THEN 0
    ELSE IF lo = hi THEN f[lo]
    ELSE LET mid == (lo + hi) \div 2
         IN  FAdd(FSumRange(f, lo, mid), FSumRange(f, mid + 1, hi))

FSum(f) == FSumRange(f, 1, Len(f))

\* statistics.mean(xs): the exact fraction sum / n
mean(xs) == [num |-> FSum(xs), den |-> Len(xs)]

SeqMin(xs) == CHOOSE v \in {xs[i] : i \in 1..Len(xs)} :
                 \A i \in 1..Len(xs) : v <= xs[i]
SeqMax(xs) == CHOOSE v \in {xs[i] : i \in 1..Len(xs)} :
                 \A i \in 1..Len(xs) : v >= xs[i]

\* the last n elements of s: the Python slice s[-n:] for n > 0
LastN(s, n) == IF Len(s) <= n THEN s ELSE SubSeq(s, Len(s) - n + 1, Len(s))

\* the filter with m.timestamp > cutoff: the boundary record is left out
Recent_strict(history, cutoff) ==
    SelectSeq(history, LAMBDA m : m.timestamp > cutoff)

\* [m for m in self.metrics_history if m.timestamp >= cutoff_time]
Recent(history, cutoff) ==
    SelectSeq(history, LAMBDA m : m.timestamp >= cutoff)

\* ------------------------------------------------------------ the calculator
\* floor(log10(s / n)) for s, n > 0; exact when s / n is a power of ten, which
\* is the only kind of ratio the requests below contain
RECURSIVE Log10(_, _)
Log10(s, n) ==
    IF s >= 10 * n THEN 1 + Log10(s, 10 * n)
    ELSE IF s < n THEN Log10(10 * s, n) - 1
    ELSE 0

\* math.log10 raises ValueError ("math domain error") for an argument <= 0
SnrRaises(signal_strength, noise_level) ==
    noise_level # 0 /\ signal_strength * noise_level <= 0

\* calculate_snr answering 0.0 in place of float('inf') when there is no noise
calculate_snr_zero(signal_strength, noise_level) ==
    IF noise_level = 0 THEN 0
    ELSE 20 * 1000 * Log10(Abs(signal_strength), Abs(noise_level))

calculate_snr(signal_strength, noise_level) ==
    IF noise_level = 0 THEN Inf
    ELSE 20 * 1000 * Log10(Abs(signal_strength), Abs(noise_level))

\* weights, in hundredths
weights == [snr |-> 30, distortion |-> 20, latency |-> 15,
            error_rate |-> 15, throughput |-> 10, amplitude |-> 10]

calculate_quality_score(m) ==
    LET snr_score        == Min(100000, Max(0, Times2_5(FAdd(m.signal_to_noise_ratio, 20000))))
        distortion_score == Max(0, 100000 - m.distortion * 100)
        latency_score    == Max(0, 100000 - m.latency * 10)
        error_rate_score == Max(0, 100000 - m.error_rate * 1000)
        throughput_score == Min(100000, m.throughput * 10)
        amplitude_score  == Min(100000, Abs(m.amplitude) * 50)
        quality_score    == snr_score * weights.snr
                          + distortion_score * weights.distortion
                          + latency_score * weights.latency
                          + error_rate_score * weights.error_rate
                          + throughput_score * weights.throughput
                          + amplitude_score * weights.amplitude
    IN  \* round(quality_score, 2): quality_score is in 1e-5 units here
        10 * RoundDiv(quality_score, 1000)

\* the record add_metrics stores: the argument with its quality_score assigned
Scored(m) == [m EXCEPT !.quality_score = calculate_quality_score(m)]

\* add_metrics without the truncation to the last 1000 entries
add_metrics_unbounded(history, m) == Append(history, Scored(m))

\* add_metrics truncating with [:1000]: the newest entry is dropped instead
add_metrics_keep_first(history, m) ==
    LET appended == Append(history, Scored(m))
    IN  IF Len(appended) > MAX_HISTORY
        THEN SubSeq(appended, 1, MAX_HISTORY)
        ELSE appended

\* add_metrics with insert(0, metrics) in place of append
add_metrics_prepend(history, m) ==
    LET appended == <<Scored(m)>> \o history
    IN  IF Len(appended) > MAX_HISTORY
        THEN SubSeq(appended, Len(appended) - MAX_HISTORY + 1, Len(appended))
        ELSE appended

\* add_metrics(metrics): the history afterwards
\* add_metrics truncating with [-999:]: a full history loses two records
add_metrics_off_by_one(history, m) ==
    LET appended == Append(history, Scored(m))
    IN  IF Len(appended) > MAX_HISTORY
        THEN LastN(appended, MAX_HISTORY - 1)
        ELSE appended

add_metrics(history, m) ==
    LET appended == Append(history, Scored(m))
    IN  IF Len(appended) > MAX_HISTORY
        THEN SubSeq(appended, Len(appended) - MAX_HISTORY + 1, Len(appended))
        ELSE appended

None == [none |-> TRUE]

FieldOf(s, fld) == [i \in 1..Len(s) |-> s[i][fld]]

\* the SignFXMetrics(...) that get_average_metrics builds from the filtered
\* records: every field is the mean of that field, the timestamp is the clock
Averaged(recent_metrics, t) ==
    [timestamp             |-> t,
     signal_strength       |-> mean(FieldOf(recent_metrics, "signal_strength")),
     noise_level           |-> mean(FieldOf(recent_metrics, "noise_level")),
     signal_to_noise_ratio |-> mean(FieldOf(recent_metrics, "signal_to_noise_ratio")),
     frequency             |-> mean(FieldOf(recent_metrics, "frequency")),
     amplitude             |-> mean(FieldOf(recent_metrics, "amplitude")),
     phase                 |-> mean(FieldOf(recent_metrics, "phase")),
     distortion            |-> mean(FieldOf(recent_metrics, "distortion")),
     latency               |-> mean(FieldOf(recent_metrics, "latency")),
     throughput            |-> mean(FieldOf(recent_metrics, "throughput")),
     error_rate            |-> mean(FieldOf(recent_metrics, "error_rate")),
     quality_score         |-> mean(FieldOf(recent_metrics, "quality_score"))]

\* get_average_metrics without the time filter: the whole history is averaged
get_average_metrics_unfiltered(history, time_window_minutes, t) ==
    IF history = << >> THEN None ELSE Averaged(history, t)

\* get_average_metrics(time_window_minutes), called when the clock reads t
get_average_metrics(history, time_window_minutes, t) ==
    IF history = << >> THEN None
    ELSE LET cutoff_time    == t - 60 * time_window_minutes
             recent_metrics == Recent(history, cutoff_time)
         IN  IF recent_metrics = << >> THEN None
             ELSE Averaged(recent_metrics, t)

ErrorNoData == [error |-> "No metrics data available"]

\* the dictionary get_metrics_summary returns for a non-empty history
Summarise(history, recent_metrics) ==
    LET last == recent_metrics[Len(recent_metrics)]
    IN  [total_measurements    |-> Len(history),
         recent_measurements   |-> Len(recent_metrics),
         current_quality_score |-> last.quality_score,
         average_quality_score |-> mean(FieldOf(recent_metrics, "quality_score")),
         min_quality_score     |-> SeqMin(FieldOf(recent_metrics, "quality_score")),
         max_quality_score     |-> SeqMax(FieldOf(recent_metrics, "quality_score")),
         average_snr           |-> mean(FieldOf(recent_metrics, "signal_to_noise_ratio")),
         average_latency       |-> mean(FieldOf(recent_metrics, "latency")),
         average_throughput    |-> mean(FieldOf(recent_metrics, "throughput")),
         average_error_rate    |-> mean(FieldOf(recent_metrics, "error_rate")),
         last_updated          |-> last.timestamp]

\* get_metrics_summary guarding with len(history) <= 1 in place of emptiness
get_metrics_summary_off_by_one(history) ==
    IF Len(history) <= 1 THEN ErrorNoData
    ELSE Summarise(history, LastN(history, RECENT_WINDOW))

\* get_metrics_summary with min and max exchanged
get_metrics_summary_swapped(history) ==
    IF history = << >> THEN ErrorNoData
    ELSE LET recent_metrics == LastN(history, RECENT_WINDOW)
             scores         == FieldOf(recent_metrics, "quality_score")
         IN  [Summarise(history, recent_metrics) EXCEPT
                 !.min_quality_score = SeqMax(scores),
                 !.max_quality_score = SeqMin(scores)]

\* get_metrics_summary over metrics_history[:100], the oldest entries
get_metrics_summary_oldest(history) ==
    IF history = << >> THEN ErrorNoData
    ELSE Summarise(history, SubSeq(history, 1, Min(Len(history), RECENT_WINDOW)))

get_metrics_summary(history) ==
    IF history = << >> THEN ErrorNoData
    ELSE Summarise(history, LastN(history, RECENT_WINDOW))

\* ------------------------------------------------------------ tool requests
\* arguments.get(key, default)
Get(arguments, key, default) ==
    IF key \in DOMAIN arguments THEN arguments[key] ELSE default

\* a well-formed sample with every field: 20 dB, quality 85.84
GoodSample ==
    [signal_strength |-> 1000, noise_level |-> 100, frequency |-> 1000000,
     amplitude |-> 1200, phase |-> 500, distortion |-> 20, latency |-> 40,
     throughput |-> 1800, error_rate |-> 10]
\* only the required fields, and zero noise: the optional fields take their
\* defaults and the SNR is infinite
ZeroNoise ==
    [signal_strength |-> 1000, noise_level |-> 0, frequency |-> 440000,
     amplitude |-> 1000]
\* out-of-range measurements, which the engine does not reject: -40 dB
OutOfRange ==
    [signal_strength |-> 10, noise_level |-> 1000, frequency |-> 1000000,
     amplitude |-> 0, distortion |-> 2000, latency |-> 20000,
     throughput |-> -5000, error_rate |-> 500]
\* zero signal over non-zero noise: log10(0) raises
ZeroSignal ==
    [signal_strength |-> 0, noise_level |-> 100, frequency |-> 1000000,
     amplitude |-> 1000]

\* the add_signfx_metrics requests of Spec and of SpecCap
AddRequests    == {GoodSample, ZeroNoise, OutOfRange, ZeroSignal}
CapAddRequests == {GoodSample}

\* A simulate_signfx_data request, with the environment's part of the call:
\* the seed of the random draws and the stall of the clock inside the loop.
SimRequest(n, seed, stall) ==
    [arguments |-> [num_samples |-> n, base_frequency |-> 1000000],
     seed |-> seed, stall |-> stall]

BigSim == MAX_HISTORY - 1

\* the simulate_signfx_data requests of Spec and of SpecCap
SimRequests    == {SimRequest(-1, 0, 0), SimRequest(0, 0, 0),
                   SimRequest(2, 1, 10), SimRequest(3, 0, 0)}
CapSimRequests == {SimRequest(2, 1, 10), SimRequest(BigSim, 0, 0)}

Windows == {0, 1}        \* time_window_minutes

\* round(x, 2) of a float in milli units
Round2(x) == IF x = Inf THEN Inf ELSE 10 * RoundDiv(x, 10)

\* round(q, d) of an exact fraction q, d = 2 or 4, as an integer number of 10^-d
RoundFrac(q, d) ==
    IF q.num = Inf THEN Inf
    ELSE IF d = 2 THEN RoundDiv(q.num, 10 * q.den)
    ELSE RoundDiv(10 * q.num, q.den)

JsonResponse(body) == [kind |-> "json", text |-> "", json |-> body]
TextResponse(msg)  == [kind |-> "text", text |-> msg, json |-> None]

\* json.dumps of one float of a result: allow_nan keeps its default, so
\* float('inf') is written as the bare token Infinity, any other value as a
\* number
json_dumps_float(x) ==
    IF x = Inf THEN [token |-> "Infinity"] ELSE [number |-> x]

\* ------------------------------------------------------------------ state
\* no handler is between two of its statements
Idle == [pc |-> "idle"]

Init ==
    /\ metrics_history = << >>
    /\ now = 0
    /\ ret = None
    /\ response = TextResponse("")
    /\ ingested = << >>
    /\ calls = 0
    /\ inflight = << >>
    /\ running = Idle

\* the clock advances between tool calls
Tick ==
    /\ now + 60 <= MaxTime
    /\ now' = now + 60
    /\ UNCHANGED <<metrics_history, ret, response, ingested, calls>>

\* add_signfx_metrics storing the measurement before it computes the SNR: a
\* request whose SNR computation raises has already appended its record
add_signfx_metrics_append_first(arguments) ==
    LET signal_strength == Get(arguments, "signal_strength", 0)
        noise_level     == Get(arguments, "noise_level", 0)
        raises  == SnrRaises(signal_strength, noise_level)
        metrics == [timestamp             |-> now,
                    signal_strength       |-> signal_strength,
                    noise_level           |-> noise_level,
                    signal_to_noise_ratio |->
                        IF raises THEN 0
                        ELSE calculate_snr(signal_strength, noise_level),
                    frequency             |-> Get(arguments, "frequency", 1000000),
                    amplitude             |-> Get(arguments, "amplitude", 1000),
                    phase                 |-> Get(arguments, "phase", 0),
                    distortion            |-> Get(arguments, "distortion", 0),
                    latency               |-> Get(arguments, "latency", 0),
                    throughput            |-> Get(arguments, "throughput", 0),
                    error_rate            |-> Get(arguments, "error_rate", 0),
                    quality_score         |-> 0]
        stored  == Scored(metrics)
    IN  /\ calls < MaxCalls
        /\ calls' = calls + 1
        /\ ret' = None
        /\ UNCHANGED now
        /\ metrics_history' = add_metrics(metrics_history, metrics)
        /\ ingested' = Append(ingested, [rec |-> stored, via |-> "add"])
        /\ response' =
              IF raises
              THEN TextResponse("Error adding metrics: math domain error")
              ELSE JsonResponse(
                      [status  |-> "success",
                       message |-> "SignFX metrics added successfully",
                       metrics |-> [stored EXCEPT
                           !.signal_to_noise_ratio = Round2(stored.signal_to_noise_ratio)]])

\* handle_call_tool("add_signfx_metrics", arguments)
add_signfx_metrics(arguments) ==
    LET signal_strength == Get(arguments, "signal_strength", 0)
        noise_level     == Get(arguments, "noise_level", 0)
        metrics == [timestamp             |-> now,
                    signal_strength       |-> signal_strength,
                    noise_level           |-> noise_level,
                    signal_to_noise_ratio |-> calculate_snr(signal_strength, noise_level),
                    frequency             |-> Get(arguments, "frequency", 1000000),
                    amplitude             |-> Get(arguments, "amplitude", 1000),
                    phase                 |-> Get(arguments, "phase", 0),
                    distortion            |-> Get(arguments, "distortion", 0),
                    latency               |-> Get(arguments, "latency", 0),
                    throughput            |-> Get(arguments, "throughput", 0),
                    error_rate            |-> Get(arguments, "error_rate", 0),
                    quality_score         |-> 0]
        stored  == Scored(metrics)
    IN  /\ calls < MaxCalls
        /\ calls' = calls + 1
        /\ ret' = None
        /\ UNCHANGED now
        /\ IF SnrRaises(signal_strength, noise_level)
           THEN /\ response' = TextResponse("Error adding metrics: math domain error")
                /\ UNCHANGED <<metrics_history, ingested>>
           ELSE /\ metrics_history' = add_metrics(metrics_history, metrics)
                /\ ingested' = Append(ingested, [rec |-> stored, via |-> "add"])
                /\ response' = JsonResponse(
                      [status  |-> "success",
                       message |-> "SignFX metrics added successfully",
                       metrics |-> [stored EXCEPT
                           !.signal_to_noise_ratio = Round2(stored.signal_to_noise_ratio)]])

\* get_signfx_summary assigning the recent slice back to the history
get_signfx_summary_trims ==
    LET summary == get_metrics_summary(metrics_history)
    IN  /\ ret' = summary
        /\ response' = JsonResponse(summary)
        /\ metrics_history' = LastN(metrics_history, RECENT_WINDOW)
        /\ UNCHANGED <<now, ingested, calls>>

\* handle_call_tool("get_signfx_summary", arguments)
get_signfx_summary ==
    LET summary == get_metrics_summary(metrics_history)
    IN  /\ UNCHANGED <<metrics_history, now, ingested, calls>>
        /\ ret' = summary
        /\ response' = JsonResponse(summary)

\* handle_call_tool("get_average_metrics", arguments)
tool_get_average_metrics(arguments) ==
    LET time_window == Get(arguments, "time_window_minutes", 5)
        avg_metrics == get_average_metrics(metrics_history, time_window, now)
    IN  /\ UNCHANGED <<metrics_history, now, ingested, calls>>
        /\ ret' = avg_metrics
        /\ response' =
             IF avg_metrics = None
             THEN TextResponse("No metrics data available for the specified time window")
             ELSE JsonResponse(
                    [time_window_minutes |-> time_window,
                     average_metrics |->
                       [timestamp             |-> avg_metrics.timestamp,
                        signal_strength       |-> RoundFrac(avg_metrics.signal_strength, 4),
                        noise_level           |-> RoundFrac(avg_metrics.noise_level, 4),
                        signal_to_noise_ratio |-> RoundFrac(avg_metrics.signal_to_noise_ratio, 2),
                        frequency             |-> RoundFrac(avg_metrics.frequency, 2),
                        amplitude             |-> RoundFrac(avg_metrics.amplitude, 4),
                        phase                 |-> RoundFrac(avg_metrics.phase, 4),
                        distortion            |-> RoundFrac(avg_metrics.distortion, 4),
                        latency               |-> RoundFrac(avg_metrics.latency, 4),
                        throughput            |-> RoundFrac(avg_metrics.throughput, 4),
                        error_rate            |-> RoundFrac(avg_metrics.error_rate, 4),
                        quality_score         |-> avg_metrics.quality_score]])

\* The random.uniform draws of one simulated sample.  Two draws inside the
\* documented ranges stand for the generator; sample i of a call takes one or
\* the other by the parity of seed + i.
SimDraw(seed, i) ==
    IF (seed + i) % 2 = 0
    THEN [signal_strength |-> 1000, noise_level |-> 100, offset |-> 50000,
          amplitude |-> 2000, phase |-> 0, distortion |-> 0, latency |-> 1,
          throughput |-> 2000, error_rate |-> 0]
    ELSE [signal_strength |-> 1000, noise_level |-> 10, offset |-> -50000,
          amplitude |-> 100, phase |-> 3142, distortion |-> 100, latency |-> 100,
          throughput |-> 500, error_rate |-> 50]

\* add_metrics(batch[lo]); ...; add_metrics(batch[hi]), one call after the
\* other in index order.  The range is split in halves, and the history after
\* the first half is built (its length is taken) before the second half is
\* entered: that keeps TLC's evaluation stack logarithmic in the batch size.
RECURSIVE AddAll(_, _, _, _)
AddAll(history, batch, lo, hi) ==
    IF lo > hi THEN history
    ELSE IF lo = hi THEN add_metrics(history, batch[lo])
    ELSE LET mid   == (lo + hi) \div 2
             first == AddAll(history, batch, lo, mid)
         IN  IF Len(first) >= 0 THEN AddAll(first, batch, mid + 1, hi) ELSE first

\* SimMetrics with the samples dated forward: now + timedelta(seconds=i*10)
SimMetrics_forward(seed, base_frequency, t, i) ==
    LET d == SimDraw(seed, i)
    IN  [timestamp             |-> t + i * 10,
         signal_strength       |-> d.signal_strength,
         noise_level           |-> d.noise_level,
         signal_to_noise_ratio |-> calculate_snr(d.signal_strength, d.noise_level),
         frequency             |-> base_frequency + d.offset,
         amplitude             |-> d.amplitude,
         phase                 |-> d.phase,
         distortion            |-> d.distortion,
         latency               |-> d.latency,
         throughput            |-> d.throughput,
         error_rate            |-> d.error_rate,
         quality_score         |-> 0]

\* the SignFXMetrics built for sample i, the clock reading t
SimMetrics(seed, base_frequency, t, i) ==
    LET d == SimDraw(seed, i)
    IN  [timestamp             |-> t - i * 10,
         signal_strength       |-> d.signal_strength,
         noise_level           |-> d.noise_level,
         signal_to_noise_ratio |-> calculate_snr(d.signal_strength, d.noise_level),
         frequency             |-> base_frequency + d.offset,
         amplitude             |-> d.amplitude,
         phase                 |-> d.phase,
         distortion            |-> d.distortion,
         latency               |-> d.latency,
         throughput            |-> d.throughput,
         error_rate            |-> d.error_rate,
         quality_score         |-> 0]

\* datetime.now() is read once per sample; stall is the time that passes
\* between the read for sample 0 and the read for sample 1
SimClock(t, stall, i) == IF i >= 1 THEN t + stall ELSE t

\* handle_call_tool("simulate_signfx_data", arguments)
simulate_signfx_data(arguments, seed, stall) ==
    LET num_samples    == Get(arguments, "num_samples", 10)
        base_frequency == Get(arguments, "base_frequency", 1000000)
        batch == [k \in 1..Max(num_samples, 0) |->
                    SimMetrics(seed, base_frequency, SimClock(now, stall, k - 1), k - 1)]
        generated_samples ==
            [k \in 1..Len(batch) |->
                LET m == Scored(batch[k])
                IN  [sample                |-> k,
                     timestamp             |-> m.timestamp,
                     signal_strength       |-> m.signal_strength,
                     noise_level           |-> m.noise_level,
                     signal_to_noise_ratio |-> Round2(m.signal_to_noise_ratio),
                     frequency             |-> Round2(m.frequency),
                     amplitude             |-> m.amplitude,
                     quality_score         |-> Round2(m.quality_score)]]
    IN  /\ calls < MaxCalls
        /\ calls' = calls + 1
        /\ ret' = None
        /\ now' = IF num_samples >= 2 THEN now + stall ELSE now
        /\ metrics_history' = AddAll(metrics_history, batch, 1, Len(batch))
        /\ ingested' = ingested \o [k \in 1..Len(batch) |->
                                      [rec |-> Scored(batch[k]), via |-> "simulate"]]
        \* message is f"Generated {num_samples} simulated SignFX samples"
        /\ response' = JsonResponse(
              [status  |-> "success",
               message |-> num_samples,
               samples |-> generated_samples])

\* handle_call_tool(name, arguments) for a name that is none of the four tools
unknown_tool ==
    /\ response' = TextResponse("Unknown tool")
    /\ ret' = None
    /\ UNCHANGED <<metrics_history, now, ingested, calls>>

CallAdd(requests) ==
    \E arguments \in requests : add_signfx_metrics(arguments)
CallSimulate(requests) ==
    \E r \in requests : simulate_signfx_data(r.arguments, r.seed, r.stall)
CallSummary == get_signfx_summary
CallAverage ==
    \E w \in Windows : tool_get_average_metrics([time_window_minutes |-> w])
CallUnknown == unknown_tool

\* one request at a time: each is handled to its end before the next arrives
Sequential == UNCHANGED <<inflight, running>>

\* Spec: small histories, every kind of request
Next == \/ Tick /\ Sequential
        \/ CallAdd(AddRequests) /\ Sequential
        \/ CallSimulate(SimRequests) /\ Sequential
        \/ CallSummary /\ Sequential
        \/ CallAverage /\ Sequential
        \/ CallUnknown /\ Sequential

Spec == Init /\ [][Next]_vars

\* SpecCap: histories that reach and pass MAX_HISTORY, few kinds of request
NextCap == \/ Tick /\ Sequential
           \/ CallAdd(CapAddRequests) /\ Sequential
           \/ CallSimulate(CapSimRequests) /\ Sequential
           \/ CallSummary /\ Sequential
           \/ CallAverage /\ Sequential
           \/ CallUnknown /\ Sequential

SpecCap == Init /\ [][NextCap]_vars

\* ------------------------------------------------- the asyncio event loop
\* Requests in flight together.  The server hands every request to its own
\* task; asyncio.run drives all tasks on one thread, and a task gives the
\* thread up only at an await that suspends.  Here a handler runs statement by
\* statement: the append of add_metrics and its truncation are two steps.

\* the arguments of a call without arguments
NoArguments == << >>

AddTask ==
    [name |-> "add_signfx_metrics", arguments |-> GoodSample,
     seed |-> 0, stall |-> 0]
SimTask ==
    [name |-> "simulate_signfx_data",
     arguments |-> SimRequest(2, 1, 0).arguments, seed |-> 1, stall |-> 0]
SummaryTask ==
    [name |-> "get_signfx_summary", arguments |-> NoArguments,
     seed |-> 0, stall |-> 0]
AverageTask ==
    [name |-> "get_average_metrics", arguments |-> [time_window_minutes |-> 1],
     seed |-> 0, stall |-> 0]

\* the requests of SpecAsync
AsyncTasks == {AddTask, SimTask, SummaryTask, AverageTask}

Ingesting(t) == t.name \in {"add_signfx_metrics", "simulate_signfx_data"}

\* the tasks in flight without the one at index i
Remove(s, i) == SubSeq(s, 1, i - 1) \o SubSeq(s, i + 1, Len(s))

\* handlers on preemptive threads: one may run while another is between two
\* of its statements
MayRun_preemptive(r) == TRUE

\* The handlers are coroutines of one event loop and contain no await of
\* their own (the only awaits are handle_call_tool's "return await handler"),
\* so the loop runs something else only when no handler is between two
\* statements.
MayRun(r) == r = Idle

\* the transport delivers a request and the server creates its task
Receive(t) ==
    /\ MayRun(running)
    /\ Len(inflight) < MaxInflight
    /\ Ingesting(t) => calls + Len(SelectSeq(inflight, Ingesting)) < MaxCalls
    /\ inflight' = Append(inflight, t)
    /\ UNCHANGED <<metrics_history, now, ret, response, ingested, calls, running>>

\* the SignFXMetrics that add_signfx_metrics builds from its arguments, the
\* clock reading t
NewMetrics(arguments, t) ==
    LET signal_strength == Get(arguments, "signal_strength", 0)
        noise_level     == Get(arguments, "noise_level", 0)
    IN  [timestamp             |-> t,
         signal_strength       |-> signal_strength,
         noise_level           |-> noise_level,
         signal_to_noise_ratio |-> calculate_snr(signal_strength, noise_level),
         frequency             |-> Get(arguments, "frequency", 1000000),
         amplitude             |-> Get(arguments, "amplitude", 1000),
         phase                 |-> Get(arguments, "phase", 0),
         distortion            |-> Get(arguments, "distortion", 0),
         latency               |-> Get(arguments, "latency", 0),
         throughput            |-> Get(arguments, "throughput", 0),
         error_rate            |-> Get(arguments, "error_rate", 0),
         quality_score         |-> 0]

\* add_signfx_metrics up to and including the append inside add_metrics
StartAdd ==
    \E i \in 1..Len(inflight) :
        LET task    == inflight[i]
            metrics == NewMetrics(task.arguments, now)
        IN  /\ MayRun(running)
            /\ task.name = "add_signfx_metrics"
            /\ inflight' = Remove(inflight, i)
            /\ calls' = calls + 1
            /\ UNCHANGED now
            /\ IF SnrRaises(metrics.signal_strength, metrics.noise_level)
               THEN /\ response' = TextResponse("Error adding metrics: math domain error")
                    /\ ret' = None
                    /\ UNCHANGED <<metrics_history, ingested, running>>
               ELSE /\ metrics_history' = Append(metrics_history, Scored(metrics))
                    /\ ingested' = Append(ingested,
                                          [rec |-> Scored(metrics), via |-> "add"])
                    /\ running' = [pc |-> "appended", task |-> task, i |-> 0,
                                   generated_samples |-> << >>]
                    /\ UNCHANGED <<ret, response>>

\* simulate_signfx_data up to the head of its loop
StartSimulate ==
    \E i \in 1..Len(inflight) :
        /\ MayRun(running)
        /\ inflight[i].name = "simulate_signfx_data"
        /\ inflight' = Remove(inflight, i)
        /\ calls' = calls + 1
        /\ running' = [pc |-> "loop", task |-> inflight[i], i |-> 0,
                       generated_samples |-> << >>]
        /\ UNCHANGED <<metrics_history, now, ret, response, ingested>>

\* one turn of the loop of simulate_signfx_data, up to and including the
\* append inside add_metrics
SimulateSample ==
    /\ running.pc = "loop"
    /\ running.i < Get(running.task.arguments, "num_samples", 10)
    /\ LET base_frequency == Get(running.task.arguments, "base_frequency", 1000000)
           m == Scored(SimMetrics(running.task.seed, base_frequency, now, running.i))
       IN  /\ metrics_history' = Append(metrics_history, m)
           /\ ingested' = Append(ingested, [rec |-> m, via |-> "simulate"])
           /\ running' = [running EXCEPT !.pc = "appended"]
    /\ UNCHANGED <<now, ret, response, calls, inflight>>

\* the truncation of add_metrics, and what follows it in the handler: the
\* result of add_signfx_metrics, or the entry of generated_samples and the
\* next turn of the loop of simulate_signfx_data
Truncate ==
    /\ running.pc = "appended"
    /\ metrics_history' = IF Len(metrics_history) > MAX_HISTORY
                          THEN LastN(metrics_history, MAX_HISTORY)
                          ELSE metrics_history
    /\ IF running.task.name = "add_signfx_metrics"
       THEN LET stored == ingested[Len(ingested)].rec
            IN  /\ running' = Idle
                /\ ret' = None
                /\ response' = JsonResponse(
                      [status  |-> "success",
                       message |-> "SignFX metrics added successfully",
                       metrics |-> [stored EXCEPT
                           !.signal_to_noise_ratio = Round2(stored.signal_to_noise_ratio)]])
       ELSE LET m == ingested[Len(ingested)].rec
            IN  /\ running' = [running EXCEPT
                      !.pc = "loop",
                      !.i = @ + 1,
                      !.generated_samples = Append(@,
                          [sample                |-> running.i + 1,
                           timestamp             |-> m.timestamp,
                           signal_strength       |-> m.signal_strength,
                           noise_level           |-> m.noise_level,
                           signal_to_noise_ratio |-> Round2(m.signal_to_noise_ratio),
                           frequency             |-> Round2(m.frequency),
                           amplitude             |-> m.amplitude,
                           quality_score         |-> Round2(m.quality_score)])]
                /\ UNCHANGED <<ret, response>>
    /\ UNCHANGED <<now, ingested, calls, inflight>>

\* simulate_signfx_data after its loop
FinishSimulate ==
    /\ running.pc = "loop"
    /\ running.i >= Get(running.task.arguments, "num_samples", 10)
    /\ running' = Idle
    /\ ret' = None
    /\ response' = JsonResponse(
          [status  |-> "success",
           message |-> Get(running.task.arguments, "num_samples", 10),
           samples |-> running.generated_samples])
    /\ UNCHANGED <<metrics_history, now, ingested, calls, inflight>>

\* get_signfx_summary from its first statement to its return
RunSummary ==
    \E i \in 1..Len(inflight) :
        /\ MayRun(running)
        /\ inflight[i].name = "get_signfx_summary"
        /\ inflight' = Remove(inflight, i)
        /\ get_signfx_summary
        /\ UNCHANGED running

\* get_average_metrics from its first statement to its return
RunAverage ==
    \E i \in 1..Len(inflight) :
        /\ MayRun(running)
        /\ inflight[i].name = "get_average_metrics"
        /\ inflight' = Remove(inflight, i)
        /\ tool_get_average_metrics(inflight[i].arguments)
        /\ UNCHANGED running

\* The first ingesting request, a simulate_signfx_data that fills the history
\* up to one record short of MAX_HISTORY, received and handled with nothing
\* else in flight: its turns are taken in one step.
FillAlone ==
    /\ MayRun(running)
    /\ inflight = << >>
    /\ calls = 0
    /\ simulate_signfx_data(SimRequest(BigSim, 0, 0).arguments, 0, 0)
    /\ UNCHANGED <<inflight, running>>

\* SpecAsync: several requests in flight, histories at MAX_HISTORY
NextAsync == \/ \E t \in AsyncTasks : Receive(t)
             \/ StartAdd
             \/ StartSimulate
             \/ SimulateSample
             \/ Truncate
             \/ FinishSimulate
             \/ RunSummary
             \/ RunAverage
             \/ FillAlone

SpecAsync == Init /\ [][NextAsync]_vars

\* ------------------------------------------------------------------ claims
\* the records of the history variable, without their origin
Ingested == [i \in 1..Len(ingested) |-> ingested[i].rec]

\* C1: at every operation boundary the history holds at most MAX_HISTORY
\* (1000) records.
C1_HistoryBounded == Len(metrics_history) <= MAX_HISTORY

\* more than MAX_HISTORY records were ingested and the history is full
C1_Witness ==
    /\ Len(ingested) > MAX_HISTORY
    /\ Len(metrics_history) = MAX_HISTORY

\* C2: eviction is FIFO.  Once more than MAX_HISTORY records were ingested the
\* history has length MAX_HISTORY and holds exactly the last MAX_HISTORY
\* ingested records in their insertion order; its last element is the most
\* recently ingested record.
C2_FifoEviction ==
    Len(ingested) > MAX_HISTORY =>
        /\ Len(metrics_history) = MAX_HISTORY
        /\ metrics_history = LastN(Ingested, MAX_HISTORY)
        /\ metrics_history[Len(metrics_history)] = ingested[Len(ingested)].rec

\* at least two records were evicted, and the one at the front of the history
\* is not the first one ingested
C2_Witness ==
    /\ Len(ingested) >= MAX_HISTORY + 2
    /\ metrics_history[1] = ingested[Len(ingested) - MAX_HISTORY + 1].rec
    /\ metrics_history[1] # ingested[1].rec

\* C3: summary on an empty history returns the ErrorNoData value (returned in
\* the JSON result, not raised), on a non-empty history it never does, and in
\* both cases the history is left unchanged.
C3_SummaryNoData ==
    [][get_signfx_summary =>
          /\ (metrics_history = << >>) <=> (ret' = ErrorNoData)
          /\ response' = JsonResponse(ret')
          /\ metrics_history' = metrics_history]_vars

\* a summary call answered ErrorNoData as a JSON value on the empty history
C3_Witness ==
    /\ metrics_history = << >>
    /\ ret = ErrorNoData
    /\ response = JsonResponse(ErrorNoData)

\* the indices of the stored records inside the window of w minutes ending at t
InWindow(history, w, t) ==
    {i \in 1..Len(history) : history[i].timestamp >= t - 60 * w}

NoDataText == "No metrics data available for the specified time window"

\* C4: windowedAverage returns "no data" when the history is empty and when no
\* stored record has timestamp >= now - window; it returns an averaged record
\* exactly when at least one stored record falls inside the window.
C4_AverageNoData ==
    [][\A w \in Windows :
          tool_get_average_metrics([time_window_minutes |-> w]) =>
              /\ (ret' = None) <=> (InWindow(metrics_history, w, now) = {})
              /\ (response' = TextResponse(NoDataText)) <=> (ret' = None)]_vars

\* "no data" on a non-empty history: every stored record is older than the window
C4_Witness ==
    /\ metrics_history # << >>
    /\ ret = None
    /\ response = TextResponse(NoDataText)

\* C5: on a non-empty history, summary reports
\* min_quality_score <= average_quality_score <= max_quality_score.
C5_MinAvgMax ==
    [][get_signfx_summary /\ metrics_history # << >> =>
          /\ ret'.min_quality_score * ret'.average_quality_score.den
                <= ret'.average_quality_score.num
          /\ ret'.average_quality_score.num
                <= ret'.max_quality_score * ret'.average_quality_score.den]_vars

IsSummary(r) == "total_measurements" \in DOMAIN r

\* a summary over several records whose scores differ
C5_Witness ==
    /\ IsSummary(ret)
    /\ ret.recent_measurements >= 2
    /\ ret.min_quality_score < ret.max_quality_score

\* C6: on a non-empty history, summary aggregates over exactly the last
\* min(len, 100) records in insertion order: recent_measurements is
\* min(len, 100), total_measurements is the current length (<= MAX_HISTORY),
\* current_quality_score and last_updated are those of the last record.
C6_SummaryWindow ==
    [][get_signfx_summary /\ metrics_history # << >> =>
          LET len == Len(metrics_history)
              n   == Min(len, RECENT_WINDOW)
              qs  == [i \in 1..n |-> metrics_history[len - n + i].quality_score]
              ls  == [i \in 1..n |-> metrics_history[len - n + i].latency]
          IN  /\ ret'.recent_measurements = n
              /\ ret'.total_measurements = len
              /\ ret'.total_measurements <= MAX_HISTORY
              /\ ret'.current_quality_score = metrics_history[len].quality_score
              /\ ret'.last_updated = metrics_history[len].timestamp
              /\ ret'.average_quality_score = [num |-> FSum(qs), den |-> n]
              /\ ret'.average_latency = [num |-> FSum(ls), den |-> n]
              /\ \A i \in 1..n : /\ ret'.min_quality_score <= qs[i]
                                 /\ ret'.max_quality_score >= qs[i]]_vars

\* a summary of a history longer than the recent window, after an eviction
C6_Witness ==
    /\ IsSummary(ret)
    /\ ret.recent_measurements = RECENT_WINDOW
    /\ ret.total_measurements = MAX_HISTORY
    /\ Len(ingested) > MAX_HISTORY

\* the sum of a field over the records at the indices I, inf absorbing
RECURSIVE SumOver(_, _, _)
SumOver(history, fld, I) ==
    IF I = {} THEN 0
    ELSE LET i == CHOOSE j \in I : TRUE
         IN  FAdd(history[i][fld], SumOver(history, fld, I \ {i}))

AveragedFields ==
    {"signal_strength", "noise_level", "signal_to_noise_ratio", "frequency",
     "amplitude", "phase", "distortion", "latency", "throughput", "error_rate",
     "quality_score"}

\* C7: when the window is non-empty, windowedAverage returns a record in which
\* every raw and derived field is the arithmetic mean of that field over
\* exactly the stored records with timestamp >= now - window (boundary
\* included), quality_score being the mean of the stored scores, and whose
\* timestamp is the query time.
C7_AverageIsMean ==
    [][\A w \in Windows :
          tool_get_average_metrics([time_window_minutes |-> w]) /\ ret' # None =>
              LET I == InWindow(metrics_history, w, now)
              IN  /\ ret'.timestamp = now
                  /\ \A fld \in AveragedFields :
                        ret'[fld] = [num |-> SumOver(metrics_history, fld, I),
                                     den |-> Cardinality(I)]]_vars

IsAverage(r) == "noise_level" \in DOMAIN r

\* an average over several records but not all of them, one of them exactly on
\* the boundary of the window, none of them dated at the query time
C7_Witness ==
    /\ IsAverage(ret)
    /\ response.kind = "json"
    /\ ret.quality_score.den >= 2
    /\ ret.quality_score.den < Len(metrics_history)
    /\ \E i \in 1..Len(metrics_history) :
          metrics_history[i].timestamp
             = ret.timestamp - 60 * response.json.time_window_minutes
    /\ \A i \in 1..Len(metrics_history) :
          metrics_history[i].timestamp # ret.timestamp

\* C8: a stored record never changes while it stays in the history: a step
\* only drops records from the front and appends new ones; a step that ingests
\* nothing (summary, windowedAverage, a failed or unknown call, the clock)
\* leaves the history unchanged, so no averaged record is ever appended.
C8_RecordsImmutable ==
    [][LET appended == Len(ingested') - Len(ingested)
           evicted  == Len(metrics_history) + appended - Len(metrics_history')
       IN  /\ ingested' = ingested => metrics_history' = metrics_history
           /\ get_signfx_summary => metrics_history' = metrics_history
           /\ (\E w \in Windows : tool_get_average_metrics([time_window_minutes |-> w]))
                 => metrics_history' = metrics_history
           /\ appended >= 0
           /\ evicted >= 0
           /\ \A i \in (evicted + 1)..Len(metrics_history) :
                 metrics_history'[i - evicted] = metrics_history[i]]_vars

\* a summary or an average was taken of a full history from which records
\* had been evicted
C8_Witness ==
    /\ Len(ingested) > MAX_HISTORY
    /\ Len(metrics_history) = MAX_HISTORY
    /\ IsSummary(ret) \/ IsAverage(ret)

AllSimRequests == SimRequests \cup CapSimRequests

\* the result of a simulate call that was asked for n samples
IsSimulated(r, n) ==
    /\ r.kind = "json"
    /\ "samples" \in DOMAIN r.json
    /\ r.json.message = n

\* what a simulate call of n samples does to the history; strict says whether
\* the new timestamps are required to decrease strictly
SimulateEffect(n, strict) ==
    LET old   == Len(ingested)
        fresh == [k \in 1..(Len(ingested') - old) |-> ingested'[old + k]]
    IN  /\ Len(ingested') = old + n
        /\ SubSeq(ingested', 1, old) = ingested
        /\ Len(metrics_history') = Min(Len(metrics_history) + n, MAX_HISTORY)
        /\ metrics_history' = LastN(Ingested', MAX_HISTORY)
        /\ \A k \in 1..Len(fresh) :
              /\ fresh[k].via = "simulate"
              /\ fresh[k].rec.quality_score = calculate_quality_score(fresh[k].rec)
        /\ strict => \A k \in 1..(Len(fresh) - 1) :
                        fresh[k + 1].rec.timestamp < fresh[k].rec.timestamp

\* C10: simulate(N) ingests exactly N records through add_metrics, the length
\* afterwards is min(previous + N, MAX_HISTORY), and the generated timestamps
\* decrease strictly with the sample index, however the clock advances during
\* the call.
C10_Original ==
    [][\A r \in AllSimRequests :
          (/\ IsSimulated(response', r.arguments.num_samples)
           /\ simulate_signfx_data(r.arguments, r.seed, r.stall)) =>
              SimulateEffect(r.arguments.num_samples, TRUE)]_vars

\* C10, the part that holds: simulate(N) ingests exactly max(N, 0) records
\* through add_metrics (scored, appended, evicted past MAX_HISTORY), the length
\* afterwards is min(previous + max(N, 0), MAX_HISTORY), and the generated
\* timestamps decrease strictly with the sample index when less than 10
\* seconds pass between the clock reads of consecutive samples.
C10_Simulate ==
    [][\A r \in AllSimRequests :
          (/\ IsSimulated(response', r.arguments.num_samples)
           /\ simulate_signfx_data(r.arguments, r.seed, r.stall)) =>
              SimulateEffect(Max(r.arguments.num_samples, 0), r.stall < 10)]_vars

\* a simulate call of several samples that pushed the history past MAX_HISTORY,
\* its samples dated in strictly decreasing order
C10_Witness ==
    /\ response.kind = "json"
    /\ "samples" \in DOMAIN response.json
    /\ Len(response.json.samples) >= 2
    /\ Len(ingested) > MAX_HISTORY
    /\ Len(metrics_history) = MAX_HISTORY
    /\ \A k \in 1..(Len(response.json.samples) - 1) :
          response.json.samples[k + 1].timestamp < response.json.samples[k].timestamp

\* C11: every stored quality_score lies in the range 0 to 100 inclusive,
\* whatever raw field values were supplied.
C11_QualityInRange ==
    \A i \in 1..Len(metrics_history) :
        /\ metrics_history[i].quality_score >= 0
        /\ metrics_history[i].quality_score <= 100000

\* positive signal strengths, in thousandths
SnrSignals == {1, 10, 500, 1000, 20000}

\* C12: zero noise is not an error.  calculate_snr(s, 0) is infinity for
\* s > 0; an add request with noise_level = 0 succeeds and stores a record
\* whose signal_to_noise_ratio is infinity; the result of that request, and of
\* any later summary or average over the record, is a JSON result that carries
\* the SNR as Infinity, never as zero and never as a failure text.
C12_ZeroNoise ==
    [][/\ \A s \in SnrSignals : calculate_snr(s, 0) = Inf
       /\ \A a \in AddRequests :
             /\ Get(a, "noise_level", 0) = 0
             /\ Get(a, "signal_strength", 0) > 0
             /\ add_signfx_metrics(a)
             => /\ response'.kind = "json"
                /\ response'.json.status = "success"
                /\ json_dumps_float(response'.json.metrics.signal_to_noise_ratio)
                      = [token |-> "Infinity"]
                /\ Len(metrics_history') = Min(Len(metrics_history) + 1, MAX_HISTORY)
                /\ metrics_history'[Len(metrics_history')].signal_to_noise_ratio = Inf
                /\ metrics_history'[Len(metrics_history')].noise_level = 0
       /\ /\ get_signfx_summary
          /\ \E i \in 1..Len(metrics_history) :
                /\ i > Len(metrics_history) - RECENT_WINDOW
                /\ metrics_history[i].signal_to_noise_ratio = Inf
          => /\ response'.kind = "json"
             /\ IsSummary(response'.json)
             \* the mean is infinite exactly when its numerator is
             /\ json_dumps_float(response'.json.average_snr.num)
                   = [token |-> "Infinity"]
       /\ \A w \in Windows :
             /\ tool_get_average_metrics([time_window_minutes |-> w])
             /\ \E i \in InWindow(metrics_history, w, now) :
                   metrics_history[i].signal_to_noise_ratio = Inf
             => /\ response'.kind = "json"
                /\ json_dumps_float(
                      response'.json.average_metrics.signal_to_noise_ratio)
                      = [token |-> "Infinity"]]_vars

\* a summary over a zero-noise record and a record with noise reported an
\* infinite average SNR
C12_Witness ==
    /\ IsSummary(ret)
    /\ response = JsonResponse(ret)
    /\ ret.average_snr.num = Inf
    /\ \E i, j \in 1..Len(metrics_history) :
          /\ metrics_history[i].noise_level = 0
          /\ metrics_history[i].signal_to_noise_ratio = Inf
          /\ metrics_history[j].signal_to_noise_ratio # Inf

\* C13: a record leaves the history only by eviction from the front when an
\* ingest pushes the length past MAX_HISTORY.  In every step the length does
\* not decrease; records are dropped only when the ingested records do not
\* fit, and then exactly as many as do not fit; below capacity the old history
\* is a prefix of the new one; and an add on a full history removes exactly
\* its oldest record.
C13_OnlyFifoEviction ==
    [][LET appended == Len(ingested') - Len(ingested)
           evicted  == Len(metrics_history) + appended - Len(metrics_history')
       IN  /\ Len(metrics_history') >= Len(metrics_history)
           /\ evicted = Max(0, Len(metrics_history) + appended - MAX_HISTORY)
           /\ Len(metrics_history) + appended <= MAX_HISTORY =>
                 SubSeq(metrics_history', 1, Len(metrics_history)) = metrics_history
           /\ \A a \in AddRequests :
                 /\ Len(metrics_history) = MAX_HISTORY
                 /\ appended = 1
                 /\ add_signfx_metrics(a)
                 => metrics_history' =
                       Append(Tail(metrics_history), ingested'[Len(ingested')].rec)]_vars

\* the last ingest was an add on a full history, and the history now starts
\* at the record that followed the evicted one
C13_Witness ==
    /\ Len(ingested) >= MAX_HISTORY + 1
    /\ ingested[Len(ingested)].via = "add"
    /\ Len(metrics_history) = MAX_HISTORY
    /\ metrics_history[MAX_HISTORY] = ingested[Len(ingested)].rec
    /\ metrics_history[1] = ingested[Len(ingested) - MAX_HISTORY + 1].rec

\* a step in which a summary or an average request leaves the requests in
\* flight: its handler ran
ReadStep ==
    \E i \in 1..Len(inflight) :
        /\ inflight[i].name \in {"get_signfx_summary", "get_average_metrics"}
        /\ inflight' = Remove(inflight, i)

\* C14: with several requests in flight, each handler's access to the history
\* is atomic with respect to the others.  A summary or an average never runs
\* while an ingest is between its append and its truncation; the history it
\* reads holds at most MAX_HISTORY records, namely the last ones of the
\* completed ingests, and the counts it reports do not exceed MAX_HISTORY.
C14_HandlersAtomic ==
    [][ReadStep =>
          /\ running = Idle
          /\ Len(metrics_history) <= MAX_HISTORY
          /\ metrics_history = LastN(Ingested, MAX_HISTORY)
          /\ metrics_history' = metrics_history
          /\ IsSummary(ret') => ret'.total_measurements <= MAX_HISTORY
          /\ IsAverage(ret') => ret'.quality_score.den <= MAX_HISTORY]_vars

\* an add is between its append and its truncation, the history holds
\* MAX_HISTORY + 1 records, and a summary or an average is waiting to run
C14_Witness ==
    /\ running # Idle
    /\ running.pc = "appended"
    /\ Len(metrics_history) = MAX_HISTORY + 1
    /\ \E i \in 1..Len(inflight) :
          inflight[i].name \in {"get_signfx_summary", "get_average_metrics"}

\* C15: an add request whose SNR computation raises (signal_strength <= 0 over
\* noise_level > 0) and a request naming an unknown tool are both answered
\* with a failure result, a text that names the failure, and both leave the
\* history exactly as it was: no record is appended and none is evicted.
C15_FailuresLeaveStore ==
    [][/\ \A a \in AddRequests :
             /\ Get(a, "noise_level", 0) > 0
             /\ Get(a, "signal_strength", 0) <= 0
             /\ add_signfx_metrics(a)
             => /\ response' = TextResponse("Error adding metrics: math domain error")
                /\ metrics_history' = metrics_history
                /\ ingested' = ingested
       /\ unknown_tool
             => /\ response' = TextResponse("Unknown tool")
                /\ metrics_history' = metrics_history
                /\ ingested' = ingested]_vars

\* a failed add request was answered with the failure text and the history,
\* which held records, holds exactly the records ingested before
C15_Witness ==
    /\ response = TextResponse("Error adding metrics: math domain error")
    /\ metrics_history # << >>
    /\ metrics_history = Ingested
    /\ calls > Len(ingested)

====
